---------------------------- MODULE Spec2Model ----------------------------
(***************************************************************************)
(* Model of info.go: retrieval of map and program metadata from a file    *)
(* descriptor, first through BPF_OBJ_GET_INFO_BY_FD and, when the kernel   *)
(* answers EINVAL, through /proc/self/fdinfo/<fd>.                         *)
(*                                                                         *)
(* One behaviour is one retrieval (newMapInfoFromFd or                     *)
(* newProgramInfoFromFd).  The kernel's answers and the lines of the       *)
(* fdinfo file are chosen step by step from small sets.                    *)
(***************************************************************************)
EXTENDS Integers, Sequences, FiniteSets, TLC

VARIABLES
    kind,       \* which retriever runs: "map" or "prog"
    pc,         \* position of the retrieval
    queries,    \* history of structured queries: <<[buf |-> length passed, res |-> outcome]>>
    mapIds,     \* newProgramInfoFromFd: the related-identifier buffer
    info,       \* newProgramInfoFromFd: the record of the last successful query
    opened,     \* number of os.Open calls that succeeded
    openFiles,  \* number of files currently open
    text,       \* lines scanner.Scan() has delivered so far
    scanned,    \* scanFdInfoReader: the counter `scanned`
    slots,      \* destination slots of the fields map (fields of mi / info)
    readerErr,  \* error returned by scanFdInfoReader
    scanErr,    \* error returned by scanFdInfo
    ret         \* what the retrieval returned

vars == <<kind, pc, queries, mapIds, info, opened, openFiles, text, scanned, slots, readerErr, scanErr, ret>>

-----------------------------------------------------------------------------
(* Bounds *)

\* the file holds at most len(fields) + MaxExtra lines
MaxExtra == 1
\* the largest related-identifier count the kernel reports
MaxMapIds == 12

-----------------------------------------------------------------------------
(* Errors: a chain of messages, outermost first (fmt.Errorf with %w         *)
(* prepends one link), plus the MinimumVersion of UnsupportedFeatureError.  *)

NoErr == [msgs |-> <<>>, version |-> <<>>, field |-> ""]

Err(m) == [msgs |-> <<m>>, version |-> <<>>, field |-> ""]

Wrap_percentV(prefix, err) == [msgs |-> <<prefix>>, version |-> <<>>, field |-> ""]

\* fmt.Errorf("%s: %w", prefix, err)
Wrap(prefix, err) == [err EXCEPT !.msgs = <<prefix>> \o @]

\* fmt.Errorf("can't parse field %s: %v", name, err): a new error that names the
\* field and wraps nothing
ParseError(name) == [msgs |-> <<"can't parse field">>, version |-> <<>>, field |-> name]

errorsIs_anyError(err, target) == err # NoErr

\* errors.Is(err, target) for a sentinel target
errorsIs(err, target) == \E i \in 1..Len(err.msgs) : err.msgs[i] = target

EINVAL == "EINVAL"

errMissingFields == "missing fields"

UnsupportedFeatureError ==
    [msgs |-> <<"reading program info from /proc/self/fdinfo not supported">>,
     version |-> <<4, 10, 0>>, field |-> ""]

\* what a structured query can fail with
QueryErrs == {Err(EINVAL), Wrap("can't get info", Err(EINVAL)), Err("EPERM"),
              Wrap("can't get info", Err("EBADF"))}

-----------------------------------------------------------------------------
(* Records *)

NilInfo == [nil |-> TRUE]

NilSlice == [nil |-> TRUE, elems |-> <<>>]

Slice(s) == [nil |-> FALSE, elems |-> s]

NilStats == [present |-> FALSE, runtime |-> 0, runCount |-> 0]

\* the zero value of MapInfo / ProgramInfo (var mi MapInfo, var info ProgramInfo)
ZeroMapInfo ==
    [Type |-> 0, id |-> 0, KeySize |-> 0, ValueSize |-> 0, MaxEntries |-> 0,
     Flags |-> 0, Name |-> <<>>]

ZeroProgramInfo_emptyStats ==
    [Type |-> 0, id |-> 0, Tag |-> <<>>, Name |-> <<>>, btf |-> 0, ids |-> NilSlice,
     stats |-> [present |-> TRUE, runtime |-> 0, runCount |-> 0]]

ZeroProgramInfo ==
    [Type |-> 0, id |-> 0, Tag |-> <<>>, Name |-> <<>>, btf |-> 0, ids |-> NilSlice,
     stats |-> NilStats]

-----------------------------------------------------------------------------
(* The text of the fdinfo file.  A line is its key (a name followed by some *)
(* colons), whether a tab follows the key, and the value side as its       *)
(* whitespace-separated tokens; a token is a sequence of characters.       *)

Key(name, colons) == [name |-> name, colons |-> colons]

Line(name, colons, value) == [key |-> Key(name, colons), tab |-> TRUE, value |-> value]

NoTabLine == [key |-> Key("", 0), tab |-> FALSE, value |-> <<>>]

V1 == << <<"1">> >>
V0 == << <<"0">> >>
V4 == << <<"4">> >>
V8 == << <<"8">> >>
V1024 == << <<"1", "0", "2", "4">> >>
VOctal == << <<"0", "1", "1">> >>
VWord == << <<"a", "b">> >>
VTwoTokens == << <<"1">>, <<"2">> >>
VEmpty == << >>
VTooBig == << <<"4", "2", "9", "4", "9", "6", "7", "2", "9", "6">> >>

\* the fields map passed by newMapInfoFromProc and newProgramInfoFromProc
Fields(k) ==
    IF k = "map" THEN {"map_type", "key_size", "value_size", "max_entries", "map_flags"}
    ELSE {"prog_type", "prog_tag"}

\* the type of the destination slot: *string for &info.Tag, a uint32 type otherwise
SlotKind(name) == IF name = "prog_tag" THEN "string" ELSE "uint32"

ProgValues == {V1, VOctal, VWord, VTwoTokens, VEmpty, VTooBig}

ProgLines ==
    {Line(n, 1, v) : n \in Fields("prog"), v \in ProgValues}
        \cup {Line("prog_type", 0, V1), Line("prog_type", 2, V1), Line("pos", 1, V0), NoTabLine}

MapLines ==
    {Line("map_type", 1, V1), Line("key_size", 1, V4), Line("value_size", 1, V8),
     Line("max_entries", 1, V1024), Line("map_flags", 1, V0),
     Line("key_size", 1, VWord)}

Lines(k) == IF k = "map" THEN MapLines ELSE ProgLines

MaxLines(k) == Cardinality(Fields(k)) + MaxExtra

-----------------------------------------------------------------------------
(* fmt.Sscanln into one destination *)

DecimalDigits == {"0", "1", "2", "3", "4", "5", "6", "7", "8", "9"}

OctalDigits == {"0", "1", "2", "3", "4", "5", "6", "7"}

DigitVal(c) ==
    CASE c = "0" -> 0 [] c = "1" -> 1 [] c = "2" -> 2 [] c = "3" -> 3 [] c = "4" -> 4
      [] c = "5" -> 5 [] c = "6" -> 6 [] c = "7" -> 7 [] c = "8" -> 8 [] c = "9" -> 9

\* the last index of the run of characters of `digits` that starts at tok[from]
\* (from - 1 when the run is empty): for s.accept(digits) {}
RECURSIVE AcceptRun(_, _, _)
AcceptRun(tok, from, digits) ==
    IF from <= Len(tok) /\ tok[from] \in digits
    THEN AcceptRun(tok, from + 1, digits)
    ELSE from - 1

\* strconv.ParseUint followed by the bit-size check of scanUint, on two 16-bit
\* limbs: acc = <<hi, lo, overflow>> 
RECURSIVE ParseLimbs(_, _, _, _)
ParseLimbs(tok, i, base, acc) ==
    IF i > Len(tok) THEN acc
    ELSE LET lo == acc[2] * base + DigitVal(tok[i])
             hi == acc[1] * base + (lo \div 65536)
         IN  IF acc[3] \/ hi >= 65536
             THEN <<0, 0, TRUE>>
             ELSE ParseLimbs(tok, i + 1, base, <<hi, lo % 65536, FALSE>>)

\* (*ss).scanUint with verb 'v' and 32 bits on a token: a leading "0" selects
\* octal (scanBasePrefix), the digits are accepted as far as they go, and the
\* number must fit 32 bits.  used is the number of characters consumed.
\* Tokens keep to digits and letters other than the b, o, x base prefixes.
ScanUint(tok) ==
    LET prefixed == tok[1] = "0"
        base == IF prefixed THEN 8 ELSE 10
        digits == IF prefixed THEN OctalDigits ELSE DecimalDigits
        end == AcceptRun(tok, IF prefixed THEN 2 ELSE 1, digits)
        limbs == ParseLimbs(SubSeq(tok, 1, end), 1, base, <<0, 0, FALSE>>)
    IN  IF end < 1 \/ limbs[3]
        THEN [ok |-> FALSE, val |-> 0, used |-> 0]
        ELSE [ok |-> TRUE, val |-> limbs[1] * 65536 + limbs[2], used |-> end]

Sscanln_firstTokenOnly(value, slotKind) ==
    IF Len(value) = 0 THEN [n |-> 0, err |-> TRUE, val |-> 0]
    ELSE IF slotKind = "string" THEN [n |-> 1, err |-> FALSE, val |-> value[1]]
    ELSE LET r == ScanUint(value[1])
         IN  IF ~r.ok THEN [n |-> 0, err |-> TRUE, val |-> 0]
             ELSE [n |-> 1, err |-> FALSE, val |-> r.val]

\* fmt.Sscanln(parts[1], field): scans one token into the slot; after the final
\* item there must be a newline or EOF.  n counts the items stored.
Sscanln(value, slotKind) ==
    IF Len(value) = 0 THEN [n |-> 0, err |-> TRUE, val |-> 0]
    ELSE IF slotKind = "string"
    THEN [n |-> 1, err |-> Len(value) > 1, val |-> value[1]]
    ELSE LET r == ScanUint(value[1])
         IN  IF ~r.ok THEN [n |-> 0, err |-> TRUE, val |-> 0]
             ELSE [n |-> 1, err |-> (r.used < Len(value[1]) \/ Len(value) > 1),
                   val |-> r.val]

\* strings.SplitN(line, "\t", 2)
SplitN(line) == IF line.tab THEN <<line.key, line.value>> ELSE <<line.key>>

\* strings.TrimSuffix(key, ":")
TrimSuffix(key) == IF key.colons > 0 THEN [key EXCEPT !.colons = @ - 1] ELSE key

\* field, ok := fields[name]
InFields(name, k) == name.colons = 0 /\ name.name \in Fields(k)

-----------------------------------------------------------------------------
(* The structured query: bpfGetMapInfoByFD and bpfGetProgInfoByFD          *)

defaultNumMaps == 10

Tag0 == <<0, 0, 0, 0, 0, 0, 0, 0>>
Tag1 == <<171, 205, 239, 1, 35, 69, 103, 137>>

NameEmpty == <<0, 0, 0, 0, 0, 0, 0, 0, 0, 0, 0, 0, 0, 0, 0, 0>>
NameXdp == <<120, 100, 112, 0, 0, 0, 0, 0, 0, 0, 0, 0, 0, 0, 0, 0>>

\* the map records the kernel may return
MapRecords ==
    {[map_type |-> 1, id |-> 0, key_size |-> 4, value_size |-> 8, max_entries |-> 1024,
      map_flags |-> 0, name |-> NameEmpty],
     [map_type |-> 2, id |-> 5, key_size |-> 4, value_size |-> 4, max_entries |-> 16,
      map_flags |-> 1, name |-> NameXdp]}

\* the program records the kernel may return, with any related-identifier count
ProgRecords ==
    {[prog_type |-> t[1], id |-> t[2], tag |-> t[3], name |-> t[4], btf_id |-> t[5],
      run_time_ns |-> t[6], run_cnt |-> t[7], nr_map_ids |-> n] :
        t \in {<<1, 0, Tag0, NameEmpty, 0, 0, 0>>, <<6, 7, Tag1, NameXdp, 3, 5, 2>>,
               <<6, 7, Tag1, NameEmpty, 0, 0, 2>>, <<1, 0, Tag1, NameXdp, 3, 5, 0>>},
        n \in 0..MaxMapIds}

QueryResults(records) ==
    {[err |-> e, info |-> NilInfo] : e \in QueryErrs}
        \cup {[err |-> NoErr, info |-> r] : r \in records}

\* the identifiers the kernel copies into a buffer of length len when the
\* program uses n maps: the first min(len, n) entries
FillIds(len, n) == [i \in 1..len |-> IF i <= n THEN 100 + i ELSE 0]

\* internal.CString: the bytes before the first NUL
RECURSIVE CString(_)
CString(b) == IF b = <<>> \/ Head(b) = 0 THEN <<>> ELSE <<Head(b)>> \o CString(Tail(b))

HexDigits == <<"0", "1", "2", "3", "4", "5", "6", "7", "8", "9", "a", "b", "c", "d", "e", "f">>

\* hex.EncodeToString
RECURSIVE HexEncode(_)
HexEncode(b) ==
    IF b = <<>> THEN <<>>
    ELSE <<HexDigits[(Head(b) \div 16) + 1], HexDigits[(Head(b) % 16) + 1]>> \o HexEncode(Tail(b))

-----------------------------------------------------------------------------
(* Return values *)

RetNone == [status |-> "none", info |-> NilInfo, err |-> NoErr]

RetOk(i) == [status |-> "ok", info |-> i, err |-> NoErr]

RetErr(e) == [status |-> "err", info |-> NilInfo, err |-> e]

\* a run-time panic (slice bounds out of range)
RetPanic == [status |-> "panic", info |-> NilInfo, err |-> NoErr]

ZeroSlots(k) == [f \in Fields(k) |-> IF SlotKind(f) = "string" THEN <<>> ELSE 0]

\* the MapInfo literal of newMapInfoFromFd
MapInfoFromRecord(r) ==
    [Type |-> r.map_type, id |-> r.id, KeySize |-> r.key_size, ValueSize |-> r.value_size,
     MaxEntries |-> r.max_entries, Flags |-> r.map_flags, Name |-> CString(r.name)]

\* the ProgramInfo literal of newProgramInfoFromFd; mapIds[:info.nr_map_ids]
\* panics when the count exceeds the capacity of the buffer
ProgramInfoFromRecord(r, ids) ==
    IF r.nr_map_ids > Len(ids) THEN RetPanic
    ELSE RetOk([Type |-> r.prog_type, id |-> r.id, Tag |-> HexEncode(r.tag),
                Name |-> CString(r.name), btf |-> r.btf_id,
                ids |-> Slice(SubSeq(ids, 1, r.nr_map_ids)),
                stats |-> [present |-> TRUE, runtime |-> r.run_time_ns,
                           runCount |-> r.run_cnt]])

-----------------------------------------------------------------------------
(* Accessors: <<value, available>> *)

MapID(mi) == <<mi.id, mi.id > 0>>

ID(pi) == <<pi.id, pi.id > 0>>

BTFID(pi) == <<pi.btf, pi.btf > 0>>

RunCount_nonZero(pi) == <<pi.stats.runCount, pi.stats.present /\ pi.stats.runCount > 0>>

RunCount(pi) == IF pi.stats.present THEN <<pi.stats.runCount, TRUE>> ELSE <<0, FALSE>>

Runtime(pi) == IF pi.stats.present THEN <<pi.stats.runtime, TRUE>> ELSE <<0, FALSE>>

MapIDs(pi) == <<pi.ids.elems, ~pi.ids.nil>>

-----------------------------------------------------------------------------
(* The retrieval *)

Init ==
    /\ kind \in {"map", "prog"}
    /\ pc = "start"
    /\ queries = <<>>
    /\ mapIds = <<>>
    /\ info = NilInfo
    /\ opened = 0
    /\ openFiles = 0
    /\ text = <<>>
    /\ scanned = 0
    /\ slots = ZeroSlots(kind)
    /\ readerErr = NoErr
    /\ scanErr = NoErr
    /\ ret = RetNone

Return(r) == pc' = "done" /\ ret' = r

\* newMapInfoFromFd up to its return or its call of newMapInfoFromProc
NewMapInfoFromFd ==
    /\ pc = "start" /\ kind = "map"
    /\ \E res \in QueryResults(MapRecords) :
        /\ queries' = Append(queries, [buf |-> 0, res |-> res])
        /\ IF errorsIs(res.err, EINVAL)
           THEN pc' = "proc" /\ ret' = ret
           ELSE IF res.err # NoErr
           THEN Return(RetErr(res.err))
           ELSE Return(RetOk(MapInfoFromRecord(res.info)))
    /\ UNCHANGED <<kind, mapIds, info, opened, openFiles, text, scanned, slots, readerErr, scanErr>>

\* newProgramInfoFromFd: the first query with a buffer of defaultNumMaps
NewProgramInfoFromFd ==
    /\ pc = "start" /\ kind = "prog"
    /\ \E res \in QueryResults(ProgRecords) :
        /\ queries' = Append(queries, [buf |-> defaultNumMaps, res |-> res])
        /\ IF errorsIs(res.err, EINVAL)
           THEN pc' = "proc" /\ ret' = ret /\ UNCHANGED <<mapIds, info>>
           ELSE IF res.err # NoErr
           THEN Return(RetErr(res.err)) /\ UNCHANGED <<mapIds, info>>
           ELSE /\ mapIds' = FillIds(defaultNumMaps, res.info.nr_map_ids)
                /\ info' = res.info
                /\ IF res.info.nr_map_ids > defaultNumMaps
                   THEN pc' = "requery" /\ ret' = ret
                   ELSE Return(ProgramInfoFromRecord(info', mapIds'))
    /\ UNCHANGED <<kind, opened, openFiles, text, scanned, slots, readerErr, scanErr>>

RequeryLen_double == 2 * defaultNumMaps

\* mapIds = make([]MapID, info.nr_map_ids)
RequeryLen == info.nr_map_ids

\* newProgramInfoFromFd: the repeated query with the reallocated buffer
ProgRequery ==
    /\ pc = "requery"
    /\ \E res \in QueryResults(ProgRecords) :
        /\ queries' = Append(queries, [buf |-> RequeryLen, res |-> res])
        /\ IF res.err # NoErr
           THEN Return(RetErr(res.err)) /\ UNCHANGED <<mapIds, info>>
           ELSE /\ mapIds' = FillIds(RequeryLen, res.info.nr_map_ids)
                /\ info' = res.info
                /\ Return(ProgramInfoFromRecord(info', mapIds'))
    /\ UNCHANGED <<kind, opened, openFiles, text, scanned, slots, readerErr, scanErr>>

FdInfoPath == "/proc/self/fdinfo/<fd>"

\* scanFdInfo up to the call of scanFdInfoReader: fd.Value() and os.Open may fail
ScanFdInfoOpen ==
    /\ pc = "proc"
    /\ \/ /\ \E e \in {Err("file descriptor closed"), Err("open: no such file")} :
                scanErr' = e
          /\ pc' = "fromproc"
          /\ UNCHANGED <<opened, openFiles>>
       \/ /\ opened' = opened + 1
          /\ openFiles' = openFiles + 1
          /\ pc' = "scan"
          /\ UNCHANGED scanErr
    /\ UNCHANGED <<kind, queries, mapIds, info, text, scanned, slots, readerErr, ret>>

\* scanFdInfoReader: one iteration of the loop on the next line of the file
ScanLine ==
    /\ pc = "scan"
    /\ Len(text) < MaxLines(kind)
    /\ \E line \in Lines(kind) :
        /\ text' = Append(text, line)
        /\ LET parts == SplitN(line)
               name == TrimSuffix(parts[1])
           IN  IF Len(parts) # 2 \/ ~InFields(name, kind)
               THEN UNCHANGED <<pc, scanned, slots, readerErr>>
               ELSE LET r == Sscanln(parts[2], SlotKind(name.name))
                    IN  /\ slots' = IF r.n = 1 THEN [slots EXCEPT ![name.name] = r.val]
                                    ELSE slots
                        /\ IF r.err \/ r.n # 1
                           THEN /\ readerErr' = ParseError(name.name)
                                /\ pc' = "scanned"
                                /\ UNCHANGED scanned
                           ELSE /\ scanned' = scanned + 1
                                /\ UNCHANGED <<pc, readerErr>>
    /\ UNCHANGED <<kind, queries, mapIds, info, opened, openFiles, scanErr, ret>>

Complete_atLeast(n, k) == n >= Cardinality(Fields(k))

Complete_anyFound(n, k) == n > 0

\* scanned == len(fields)
Complete(n, k) == n = Cardinality(Fields(k))

\* scanFdInfoReader after the loop: scanner.Err(), then the count of fields
ScanEnd ==
    /\ pc = "scan"
    /\ \/ readerErr' = Err("read error")
       \/ readerErr' = IF Complete(scanned, kind) THEN NoErr ELSE Err(errMissingFields)
    /\ pc' = "scanned"
    /\ UNCHANGED <<kind, queries, mapIds, info, opened, openFiles, text, scanned, slots, scanErr, ret>>

ScanFdInfoReturn_leakOnError ==
    /\ pc = "scanned"
    /\ openFiles' = IF readerErr # NoErr THEN openFiles ELSE openFiles - 1
    /\ scanErr' = IF readerErr # NoErr THEN Wrap(FdInfoPath, readerErr) ELSE NoErr
    /\ pc' = "fromproc"
    /\ UNCHANGED <<kind, queries, mapIds, info, opened, text, scanned, slots, readerErr, ret>>

\* scanFdInfo after scanFdInfoReader: the error gets the file name, and the
\* deferred fh.Close() runs
ScanFdInfoReturn ==
    /\ pc = "scanned"
    /\ openFiles' = openFiles - 1
    /\ scanErr' = IF readerErr # NoErr THEN Wrap(FdInfoPath, readerErr) ELSE NoErr
    /\ pc' = "fromproc"
    /\ UNCHANGED <<kind, queries, mapIds, info, opened, text, scanned, slots, readerErr, ret>>

\* newMapInfoFromProc after scanFdInfo
NewMapInfoFromProc ==
    /\ pc = "fromproc" /\ kind = "map"
    /\ IF scanErr # NoErr
       THEN Return(RetErr(scanErr))
       ELSE Return(RetOk([ZeroMapInfo EXCEPT !.Type = slots["map_type"],
                                             !.KeySize = slots["key_size"],
                                             !.ValueSize = slots["value_size"],
                                             !.MaxEntries = slots["max_entries"],
                                             !.Flags = slots["map_flags"]]))
    /\ UNCHANGED <<kind, queries, mapIds, info, opened, openFiles, text, scanned, slots, readerErr, scanErr>>

\* newProgramInfoFromProc after scanFdInfo
NewProgramInfoFromProc ==
    /\ pc = "fromproc" /\ kind = "prog"
    /\ IF errorsIs(scanErr, errMissingFields)
       THEN Return(RetErr(UnsupportedFeatureError))
       ELSE IF scanErr # NoErr
       THEN Return(RetErr(scanErr))
       ELSE Return(RetOk([ZeroProgramInfo EXCEPT !.Type = slots["prog_type"],
                                                 !.Tag = slots["prog_tag"]]))
    /\ UNCHANGED <<kind, queries, mapIds, info, opened, openFiles, text, scanned, slots, readerErr, scanErr>>

Next ==
    \/ NewMapInfoFromFd
    \/ NewProgramInfoFromFd
    \/ ProgRequery
    \/ ScanFdInfoOpen
    \/ ScanLine
    \/ ScanEnd
    \/ ScanFdInfoReturn
    \/ NewMapInfoFromProc
    \/ NewProgramInfoFromProc

Spec == Init /\ [][Next]_vars

-----------------------------------------------------------------------------
(* Vocabulary of the properties, stated on the history the state keeps and  *)
(* independently of the operators above.                                    *)

Done == pc = "done"

FirstErr == queries[1].res.err

LastQuery == queries[Len(queries)]

\* the error is of the invalid-argument class
IsInvalidArgument(err) == \E i \in 1..Len(err.msgs) : err.msgs[i] = "EINVAL"

IsMissingFields(err) == \E i \in 1..Len(err.msgs) : err.msgs[i] = "missing fields"

IsParseError(err) == err.field # ""

IsUnsupportedFeature(err) == err.version # <<>>

\* the retrieval went to newMapInfoFromProc / newProgramInfoFromProc
FallbackStarted ==
    pc \in {"proc", "scan", "scanned", "fromproc"} \/ opened > 0 \/ scanErr # NoErr

\* scanFdInfoReader has returned
ReaderReturned == pc = "scanned" \/ (pc \in {"fromproc", "done"} /\ opened > 0)

ReadFailed == readerErr = Err("read error")

\* the lines of the text whose key is the requested field f
KeyLines(f) ==
    {i \in 1..Len(text) : text[i].tab /\ text[i].key.name = f /\ text[i].key.colons <= 1}

\* the lines of the text whose key is any requested field
RequestedLines == UNION {KeyLines(f) : f \in Fields(kind)}

\* the value sides that convert to a slot of the given type
ConvertibleValues(slotKind) ==
    IF slotKind = "string" THEN {V0, V1, V4, V8, V1024, VOctal, VWord, VTooBig}
    ELSE {V0, V1, V4, V8, V1024, VOctal}

Converts(i) ==
    \E f \in Fields(kind) : i \in KeyLines(f) /\ text[i].value \in ConvertibleValues(SlotKind(f))

\* a decimal numeral as fdinfo prints it: no leading zero
Canonical(tok) == Len(tok) = 1 \/ tok[1] # "0"

RECURSIVE Decimal(_)
Decimal(tok) ==
    IF tok = <<>> THEN 0
    ELSE 10 * Decimal(SubSeq(tok, 1, Len(tok) - 1)) + DigitVal(tok[Len(tok)])

LastLine(f) == text[CHOOSE i \in KeyLines(f) : \A j \in KeyLines(f) : j <= i]

\* the slot of f holds what the last line of the text with key f says, and
\* the zero value when the text has no such line
SlotMatchesText(f, v) ==
    IF KeyLines(f) = {} THEN v = ZeroSlots(kind)[f]
    ELSE LET tok == LastLine(f).value[1]
         IN  IF SlotKind(f) = "string" THEN v = tok
             ELSE Canonical(tok) => v = Decimal(tok)

HexVal(c) == CHOOSE d \in 0..15 : HexDigits[d + 1] = c

RECURSIVE HexDecode(_)
HexDecode(h) ==
    IF h = <<>> THEN <<>>
    ELSE <<16 * HexVal(h[1]) + HexVal(h[2])>> \o HexDecode(SubSeq(h, 3, Len(h)))

-----------------------------------------------------------------------------
(* C1: the structured query comes first; the fallback is started if and     *)
(* only if the first query failed with the invalid-argument class; any      *)
(* other failure of the first query is returned unchanged, with no record   *)
(* and without the fallback file being opened.                              *)
C1_FallbackIffEINVAL ==
    /\ Len(queries) = 0 => (pc = "start" /\ ~FallbackStarted)
    /\ Len(queries) >= 1 =>
        /\ FallbackStarted <=> IsInvalidArgument(FirstErr)
        /\ (FirstErr # NoErr /\ ~IsInvalidArgument(FirstErr)) =>
              (Done /\ Len(queries) = 1 /\ ret = RetErr(FirstErr) /\ opened = 0)

C1_Witness ==
    /\ Done /\ kind = "prog" /\ Len(queries) = 1
    /\ FirstErr = Wrap("can't get info", Err("EBADF"))
    /\ ret.status = "err" /\ ret.info = NilInfo /\ opened = 0

C3_Original ==
    (ReaderReturned /\ ~ReadFailed /\ \E f \in Fields(kind) : KeyLines(f) = {}) =>
        readerErr = Err(errMissingFields)

(* C3 amended: whenever fewer lines carry a requested key than there are    *)
(* requested fields (so a field is missing) and the value of each of these  *)
(* lines converts, scanFdInfoReader fails with errMissingFields, neither    *)
(* with a parse error nor with success, whatever the other lines contain.   *)
C3_FewerLinesMissingFields ==
    (/\ ReaderReturned /\ ~ReadFailed
     /\ Cardinality(RequestedLines) < Cardinality(Fields(kind))
     /\ \A i \in RequestedLines : Converts(i)) =>
        (readerErr = Err(errMissingFields) /\ ~IsParseError(readerErr))

C3_Witness ==
    /\ pc = "scanned" /\ kind = "prog"
    /\ Len(text) = 3
    /\ Cardinality(KeyLines("prog_type")) = 1 /\ KeyLines("prog_tag") = {}
    /\ readerErr = Err(errMissingFields)

\* the scanner reads a line with a requested key and two tokens on the value side
ReadsMultiTokenLine ==
    /\ pc = "scan" /\ Len(text') = Len(text) + 1
    /\ text'[Len(text')] \in {Line(f, 1, VTwoTokens) : f \in Fields(kind)}

(* C6 as stated: a line with a requested key and several tokens on the      *)
(* value side has its first token stored, is counted as scanned and does    *)
(* not make the scan fail.                                                  *)
C6_Original ==
    [][ReadsMultiTokenLine =>
           (/\ scanned' = scanned + 1
            /\ slots'[text'[Len(text')].key.name] =
                  (IF SlotKind(text'[Len(text')].key.name) = "string" THEN <<"1">> ELSE 1)
            /\ readerErr' = NoErr /\ pc' = "scan")]_vars

(* C6 amended: a line with a requested key and several tokens on the value  *)
(* side makes scanFdInfoReader fail with a parse error naming the field;    *)
(* the field is not counted as scanned.                                     *)
C6_ExtraTokensParseError ==
    [][ReadsMultiTokenLine =>
           (/\ scanned' = scanned
            /\ readerErr' = ParseError(text'[Len(text')].key.name)
            /\ pc' = "scanned")]_vars

C6_Witness ==
    /\ pc = "scanned" /\ Len(text) = 2
    /\ text[2] = Line("prog_tag", 1, VTwoTokens)
    /\ readerErr = ParseError("prog_tag") /\ scanned = 1

(* C9 as stated: the scan succeeds on every stream in which each requested  *)
(* field occurs at least once as a key with a value that converts, however  *)
(* often a requested key is repeated.                                       *)
C9_Original ==
    (/\ ReaderReturned /\ ~ReadFailed
     /\ \A f \in Fields(kind) : KeyLines(f) # {}
     /\ \A i \in RequestedLines : Converts(i)) =>
        readerErr = NoErr

(* C9 amended: the scan succeeds on every stream in which each requested    *)
(* field occurs exactly once as a key with a value that converts, whatever  *)
(* unknown keys and tab-less lines it also holds; when every requested      *)
(* field occurs and one is repeated, the scan ends in errMissingFields.     *)
C9_ExactlyOnceSucceeds ==
    (/\ ReaderReturned /\ ~ReadFailed
     /\ \A f \in Fields(kind) : KeyLines(f) # {}
     /\ \A i \in RequestedLines : Converts(i)) =>
        IF \A f \in Fields(kind) : Cardinality(KeyLines(f)) = 1
        THEN readerErr = NoErr
        ELSE readerErr = Err(errMissingFields)

C9_Witness ==
    /\ pc = "scanned" /\ kind = "prog" /\ Len(text) = 3
    /\ \A f \in Fields(kind) : Cardinality(KeyLines(f)) = 1
    /\ \E i \in 1..3 : text[i] \in {NoTabLine, Line("pos", 1, V0)}
    /\ readerErr = NoErr

(* C4 as stated: when the first query succeeds with a count above the      *)
(* default capacity, exactly one more query is issued, with a buffer of     *)
(* exactly that count, and the MapIDs returned have exactly that count;     *)
(* with a count of at most the default capacity no further query is         *)
(* issued; no retrieval issues more than two queries.                       *)
C4_Original ==
    /\ Len(queries) <= 2
    /\ (Done /\ kind = "prog" /\ FirstErr = NoErr) =>
        IF queries[1].res.info.nr_map_ids > defaultNumMaps
        THEN /\ Len(queries) = 2
             /\ queries[2].buf = queries[1].res.info.nr_map_ids
             /\ ret.status = "ok" =>
                  Len(MapIDs(ret.info)[1]) = queries[1].res.info.nr_map_ids
        ELSE Len(queries) = 1

(* C4 amended: when the first query succeeds with a count above the default *)
(* capacity, exactly one more query is issued, with a buffer of exactly     *)
(* that count, and when a record is returned its MapIDs have exactly the    *)
(* count the repeated query reported, every entry filled; with a count of   *)
(* at most the default capacity no further query is issued; no retrieval    *)
(* issues more than two queries.                                            *)
C4_OneRequery ==
    /\ Len(queries) <= 2
    /\ (Done /\ kind = "prog" /\ FirstErr = NoErr) =>
        IF queries[1].res.info.nr_map_ids > defaultNumMaps
        THEN /\ Len(queries) = 2
             /\ queries[2].buf = queries[1].res.info.nr_map_ids
             /\ ret.status = "ok" =>
                  /\ Len(MapIDs(ret.info)[1]) = queries[2].res.info.nr_map_ids
                  /\ \A i \in 1..Len(MapIDs(ret.info)[1]) : MapIDs(ret.info)[1][i] # 0
        ELSE Len(queries) = 1
    /\ pc = "requery" =>
        (Len(queries) = 1 /\ queries[1].res.info.nr_map_ids > defaultNumMaps)

C4_Witness ==
    /\ Done /\ Len(queries) = 2 /\ ret.status = "ok"
    /\ queries[1].res.info.nr_map_ids = 12 /\ queries[2].buf = 12
    /\ queries[2].res.info.nr_map_ids = 12
    /\ Len(MapIDs(ret.info)[1]) = 12

(* C5: when the fallback scan ends in the missing-fields condition, the     *)
(* program retrieval returns the unsupported-feature error with minimum     *)
(* version 4.10 and not the missing-fields error, the table retrieval       *)
(* returns the missing-fields error and not the unsupported-feature error;  *)
(* no other error of the fallback becomes the unsupported-feature error.    *)
C5_MissingFieldsMapping ==
    Done =>
        /\ (ReaderReturned /\ readerErr = Err(errMissingFields)) =>
              /\ ret.status = "err"
              /\ IF kind = "prog"
                 THEN /\ IsUnsupportedFeature(ret.err)
                      /\ ret.err.version = <<4, 10, 0>>
                      /\ ~IsMissingFields(ret.err)
                 ELSE /\ IsMissingFields(ret.err)
                      /\ ~IsUnsupportedFeature(ret.err)
        /\ IsUnsupportedFeature(ret.err) =>
              (kind = "prog" /\ ReaderReturned /\ readerErr = Err(errMissingFields))

C5_Witness ==
    /\ Done /\ kind = "prog" /\ readerErr = Err(errMissingFields)
    /\ ret = RetErr(UnsupportedFeatureError)

(* C7: a retrieval opens the fallback file at most once and only after the  *)
(* first query failed with invalid-argument; when the retrieval has         *)
(* returned, no file is open.                                               *)
C7_FileClosed ==
    /\ opened <= 1 /\ openFiles <= opened
    /\ opened > 0 => IsInvalidArgument(FirstErr)
    /\ Done => openFiles = 0

C7_Witness ==
    /\ Done /\ opened = 1 /\ openFiles = 0
    /\ IsParseError(readerErr) /\ ret.status = "err"

(* C8: a ProgramInfo built on the structured path reads back the record's   *)
(* values: ID and BTFID available iff positive, MapIDs available with the   *)
(* reported count even when it is 0, RunCount and Runtime available even    *)
(* when 0; a ProgramInfo without stats reads (0, false).                    *)
C8_RoundTrip ==
    (Done /\ kind = "prog" /\ ret.status = "ok") =>
        IF LastQuery.res.err = NoErr
        THEN LET r == LastQuery.res.info
                 pi == ret.info
             IN  /\ pi.Type = r.prog_type
                 /\ ID(pi) = <<r.id, r.id > 0>>
                 /\ HexDecode(pi.Tag) = r.tag
                 /\ pi.Name = SubSeq(r.name, 1, Len(pi.Name))
                 /\ r.name[Len(pi.Name) + 1] = 0
                 /\ \A i \in 1..Len(pi.Name) : pi.Name[i] # 0
                 /\ BTFID(pi) = <<r.btf_id, r.btf_id > 0>>
                 /\ MapIDs(pi)[2] = TRUE
                 /\ Len(MapIDs(pi)[1]) = r.nr_map_ids
                 /\ RunCount(pi) = <<r.run_cnt, TRUE>>
                 /\ Runtime(pi) = <<r.run_time_ns, TRUE>>
        ELSE /\ RunCount(ret.info) = <<0, FALSE>>
             /\ Runtime(ret.info) = <<0, FALSE>>

C8_Witness ==
    /\ Done /\ kind = "prog" /\ ret.status = "ok" /\ LastQuery.res.err = NoErr
    /\ LastQuery.res.info.nr_map_ids = 0 /\ LastQuery.res.info.run_cnt = 0
    /\ LastQuery.res.info.run_time_ns = 0 /\ LastQuery.res.info.id = 0
    /\ MapIDs(ret.info) = <<(<<>>), TRUE>>
    /\ RunCount(ret.info) = <<0, TRUE>>

(* C10: whatever counts the first and the repeated query report, the count  *)
(* used to cut the buffer does not exceed the length of the buffer passed   *)
(* to the query that reported it, and the retrieval returns a record or an  *)
(* error.                                                                   *)
C10_SliceInRange ==
    (Done /\ kind = "prog") =>
        /\ ret.status \in {"ok", "err"}
        /\ (ret.status # "err" /\ LastQuery.res.err = NoErr) =>
              LastQuery.res.info.nr_map_ids <= LastQuery.buf

=============================================================================
